---- MODULE Spec2Model ----
(***************************************************************************)
(* Model of src/app.py: the warehouse work-line analyser.                  *)
(*                                                                         *)
(* A text value is a sequence of characters, a character is a one-element  *)
(* token ("a", "A", " ") or a named code point ("a_acute" = U+00E1,        *)
(* "nbsp" = U+00A0, "acute" = U+00B4, "euro" = U+20AC, "comb" = a          *)
(* combining mark).  A cell of a loaded table is [na |-> TRUE] (missing),  *)
(* [num |-> n] (numeric) or [str |-> s] (text).  Quantities are integers.  *)
(* A day is the number of days since the origin 1899-12-30.                *)
(***************************************************************************)
EXTENDS Integers, Sequences, FiniteSets, TLC

VARIABLES
    pc,           \* position of the script: "idle", "error", "stopped", "done"
    df_src,       \* the loaded table: [columns |-> set of names, rows |-> sequence of rows]
    err,          \* the reported error: [kind |-> "none" | "missing" | "date", missing |-> names]
    df,           \* the enriched table (sequence of enriched rows)
    widgets,      \* the sidebar and tab widgets' values
    df_f,         \* the filtered enriched table
    den_user,     \* 1) Day x User
    sku_pivot,    \* 2) Day x User x SKU
    den_totals,   \* 3) Day totals
    transfer_df,  \* 4) Transfers (Day x LocationBucket)
    sku_top,      \* Top-N selection of tab 2
    norm_s        \* a value and its successive normalisations

vars == <<pc, df_src, err, df, widgets, df_f, den_user, sku_pivot, den_totals,
          transfer_df, sku_top, norm_s>>

(***************************************************************************)
(* Bounds                                                                  *)
(***************************************************************************)
MaxLen == 3        \* longest text value fed to the normaliser
MaxRows == 3       \* most rows in an uploaded table

(***************************************************************************)
(* Characters                                                              *)
(***************************************************************************)
LowerChars == <<"a","b","c","d","e","f","g","h","i","j","k","l","m",
                "n","o","p","q","r","s","t","u","v","w","x","y","z">>
UpperChars == <<"A","B","C","D","E","F","G","H","I","J","K","L","M",
                "N","O","P","Q","R","S","T","U","V","W","X","Y","Z">>
DigitChars == <<"0","1","2","3","4","5","6","7","8","9">>

\* accented letters of the model's alphabet: <<letter, base letter, upper-case form>>
AccentTable == << <<"a_acute", "a", "A_acute">>, <<"A_acute", "A", "A_acute">>,
                  <<"o_acute", "o", "O_acute">>, <<"O_acute", "O", "O_acute">>,
                  <<"y_acute", "y", "Y_acute">>, <<"Y_acute", "Y", "Y_acute">>,
                  <<"z_caron", "z", "Z_caron">>, <<"Z_caron", "Z", "Z_caron">> >>

Range(f) == {f[i] : i \in DOMAIN f}

AccentedChars == {AccentTable[i][1] : i \in DOMAIN AccentTable}
AsciiChars == Range(LowerChars) \cup Range(UpperChars) \cup Range(DigitChars)
                \cup {" ", "(", ")", "-", "_"}

\* code-point order of the alphabet (str comparison, sort of keys)
CodeOrder == <<" ", "(", ")", "-">> \o DigitChars \o UpperChars \o <<"_">> \o LowerChars
             \o <<"nbsp", "acute", "A_acute", "O_acute", "Y_acute", "a_acute",
                  "o_acute", "y_acute", "Z_caron", "z_caron", "comb", "euro">>

Ord(c) == CHOOSE i \in DOMAIN CodeOrder : CodeOrder[i] = c

\* str.isspace of one character
IsSpace(c) == c \in {" ", "nbsp"}

EmptyStr == << >>

(***************************************************************************)
(* normalize_str_series, per element                                       *)
(***************************************************************************)
RECURSIVE LStrip(_)
LStrip(s) == IF s # << >> /\ IsSpace(Head(s)) THEN LStrip(Tail(s)) ELSE s

RECURSIVE RStrip(_)
RStrip(s) == IF s # << >> /\ IsSpace(s[Len(s)])
             THEN RStrip(SubSeq(s, 1, Len(s) - 1)) ELSE s

\* str.strip()
Strip(s) == RStrip(LStrip(s))

\* NFKD decomposition of one character
NFKDChar(c) ==
    IF c \in AccentedChars
    THEN LET e == CHOOSE i \in DOMAIN AccentTable : AccentTable[i][1] = c
         IN  <<AccentTable[e][2], "comb">>
    ELSE IF c = "nbsp" THEN <<" ">>
    ELSE IF c = "acute" THEN <<" ", "comb">>
    ELSE <<c>>

RECURSIVE NFKD(_)
NFKD(s) == IF s = << >> THEN << >> ELSE NFKDChar(Head(s)) \o NFKD(Tail(s))

\* .str.encode("ascii", "ignore").str.decode("ascii")
AsciiIgnore(s) == SelectSeq(s, LAMBDA c : c \in AsciiChars)

UpperChar(c) ==
    IF c \in Range(LowerChars)
    THEN UpperChars[CHOOSE i \in DOMAIN LowerChars : LowerChars[i] = c]
    ELSE IF c \in AccentedChars
    THEN AccentTable[CHOOSE i \in DOMAIN AccentTable : AccentTable[i][1] = c][3]
    ELSE c

\* str.upper()
Upper(s) == [i \in DOMAIN s |-> UpperChar(s[i])]

IsNa(c) == DOMAIN c = {"na"}
IsNum(c) == DOMAIN c = {"num"}
IsStr(c) == DOMAIN c = {"str"}
NA == [na |-> TRUE]
Num(n) == [num |-> n]
Str(s) == [str |-> s]

RECURSIVE NatToStr(_)
NatToStr(n) == IF n < 10 THEN <<DigitChars[n + 1]>>
               ELSE NatToStr(n \div 10) \o <<DigitChars[(n % 10) + 1]>>

\* .astype("string").fillna(""), of a text, a missing or an integer value
AsStringFillna(c) ==
    IF IsNa(c) THEN EmptyStr
    ELSE IF IsStr(c) THEN c.str
    ELSE IF c.num < 0 THEN <<"-">> \o NatToStr(-c.num) ELSE NatToStr(c.num)

\* one element of normalize_str_series: strip, NFKD, ascii filter, upper
normalize_str_series(c) == Upper(AsciiIgnore(NFKD(Strip(AsStringFillna(c)))))

(***************************************************************************)
(* Enrichment: add_computed_columns                                        *)
(***************************************************************************)
\* the column names, without their diacritics
required_cols == <<"Typ prace", "ID pracovni tridy", "Mnozstvi prace", "Jednotka",
                   "Uzavrena prace", "ID uzivatele", "C. polozky", "Misto">>

\* a check that stops at the first absent column
ensure_columns_first(columns, required) ==
    LET absent == SelectSeq(required, LAMBDA c : c \notin columns)
    IN  IF absent = << >> THEN << >> ELSE <<Head(absent)>>

\* the list of the required columns the table lacks, in the order of `required`;
\* the caller raises ValueError(missing) when it is not empty
ensure_columns(columns, required) == SelectSeq(required, LAMBDA c : c \notin columns)

\* pd.to_datetime(..., unit="D", origin="1899-12-30") accepts numeric input only:
\* a column that holds a text value, or no value at all, is of dtype object and the
\* call raises ValueError, whatever errors= says
to_excel_date_raises(series) ==
    series = << >> \/ \E i \in DOMAIN series : IsStr(series[i])

\* one element of to_excel_date_series on a numeric column: the day, or NaT
to_excel_date_series(c) == IF IsNum(c) THEN Num(c.num) ELSE NA

IsDigits(s) == s # << >> /\ \A i \in DOMAIN s : s[i] \in Range(DigitChars)

RECURSIVE StrToNat(_)
StrToNat(s) ==
    IF s = << >> THEN 0
    ELSE 10 * StrToNat(SubSeq(s, 1, Len(s) - 1))
         + (CHOOSE d \in 0..9 : DigitChars[d + 1] = s[Len(s)])

\* pd.to_numeric(errors="coerce").fillna(0.0), per element
to_numeric_fillna(c) ==
    IF IsNum(c) THEN c.num
    ELSE IF IsStr(c) /\ IsDigits(Strip(c.str)) THEN StrToNat(Strip(c.str))
    ELSE 0

ST == <<"S", "T">>
PAL == <<"P", "A", "L">>
VLOZIT == <<"V", "L", "O", "Z", "I", "T">>
VYDAT == <<"V", "Y", "D", "A", "T">>
NAKUP == <<"N", "A", "K", "U", "P">>
PRODEJ == <<"P", "R", "O", "D", "E", "J">>
VYROBA == <<"V", "Y", "R", "O", "B", "A">>
PO_POZN == <<"P", "O", "_", "P", "O", "Z", "N">>

\* a quantity that also expands pallets
EffectiveQty_pallets(unit_n, qty) ==
    IF unit_n = ST THEN 1 ELSE IF unit_n = PAL THEN qty * 24 ELSE qty

\* np.where(Unit_n == "ST", 1.0, Qty)
EffectiveQty_STis1(unit_n, qty) == IF unit_n = ST THEN 1 ELSE qty

\* np.where(Unit_n == "PAL", Qty * 24.0, Qty)
SkpQty(unit_n, qty) == IF unit_n = PAL THEN qty * 24 ELSE qty

is_prijem(wt, wc) == wt = VLOZIT /\ wc = NAKUP
is_expedice(wt, wc) == wt = VYDAT /\ (wc = PRODEJ \/ wc = EmptyStr)
is_tonovani(wt, wc) == wt = VLOZIT /\ wc \in {VYROBA, PO_POZN}
\* a Transfer mask that forgets the work class
is_transfer_any_class(wt, wc) == wt = VLOZIT

is_transfer(wt, wc) == wt = VLOZIT /\ wc = EmptyStr

\* the letters of the address pattern's first character class
AddrLetters == Range(UpperChars) \cup {"A_acute", "O_acute", "Y_acute", "Z_caron"}

RECURSIVE SplitDash(_)
\* the parts of s between its "-" characters
SplitDash(s) ==
    IF \A i \in DOMAIN s : s[i] # "-" THEN <<s>>
    ELSE LET k == CHOOSE i \in DOMAIN s : s[i] = "-" /\ \A j \in 1..(i - 1) : s[j] # "-"
         IN  <<SubSeq(s, 1, k - 1)>> \o SplitDash(SubSeq(s, k + 1, Len(s)))

\* Location.str.fullmatch(r"^[A-Z...]-\d+-\d+-\d+$")
addr_regex(s) ==
    /\ Len(s) >= 2
    /\ s[1] \in AddrLetters
    /\ s[2] = "-"
    /\ LET parts == SplitDash(SubSeq(s, 3, Len(s)))
       IN  Len(parts) = 3 /\ \A i \in 1..3 : IsDigits(parts[i])

\* the label "Adresy (kódy)"
AddrBucket == <<"A", "d", "r", "e", "s", "y", " ", "(", "k", "o_acute", "d", "y", ")">>

LocationBucket(location) == IF addr_regex(location) THEN AddrBucket ELSE location

\* the computed columns of one row
ComputedColumns(r) ==
    LET wt == normalize_str_series(r["Typ prace"])
        wc == normalize_str_series(r["ID pracovni tridy"])
        un == normalize_str_series(r["Jednotka"])
        loc == Strip(AsStringFillna(r["Misto"]))
        qty == to_numeric_fillna(r["Mnozstvi prace"])
    IN  [WorkType_n |-> wt, WorkClass_n |-> wc, Unit_n |-> un,
         User |-> Strip(AsStringFillna(r["ID uzivatele"])),
         SKU |-> Strip(AsStringFillna(r["C. polozky"])),
         Location |-> loc,
         Den |-> to_excel_date_series(r["Uzavrena prace"]),
         Qty |-> qty,
         EffectiveQty_STis1 |-> EffectiveQty_STis1(un, qty),
         SkpQty |-> SkpQty(un, qty),
         is_prijem |-> is_prijem(wt, wc),
         is_expedice |-> is_expedice(wt, wc),
         is_tonovani |-> is_tonovani(wt, wc),
         is_transfer |-> is_transfer(wt, wc),
         LocationBucket |-> LocationBucket(loc)]

\* df[~pd.isna(df["Den"])]
DropNaT(rows) == SelectSeq(rows, LAMBDA r : ~IsNa(r.Den))

NoError == [kind |-> "none", missing |-> << >>]

\* the exception add_computed_columns raises on df_raw, NoError when it returns
add_computed_columns_raises(df_raw) ==
    LET missing == ensure_columns(df_raw.columns, required_cols)
        rows == df_raw.rows
    IN  IF missing # << >>
        THEN [kind |-> "missing", missing |-> missing]
        ELSE IF to_excel_date_raises([i \in DOMAIN rows |-> rows[i]["Uzavrena prace"]])
        THEN [kind |-> "date", missing |-> << >>]
        ELSE NoError

\* the table add_computed_columns returns when it raises nothing
add_computed_columns(df_raw) ==
    DropNaT([i \in DOMAIN df_raw.rows |->
                df_raw.rows[i] @@ ComputedColumns(df_raw.rows[i])])

(***************************************************************************)
(* Filters                                                                 *)
(***************************************************************************)
\* lexicographic order of two text values by code point
StrLess(a, b) ==
    \/ /\ Len(a) < Len(b)
       /\ \A i \in 1..Len(a) : a[i] = b[i]
    \/ \E i \in 1..Len(a) :
           /\ i <= Len(b)
           /\ \A j \in 1..(i - 1) : a[j] = b[j]
           /\ Ord(a[i]) < Ord(b[i])

\* the order of the values of one key column: days by date, the others as text
ValLess(col, a, b) == IF col = "Den" THEN a.num < b.num ELSE StrLess(a, b)

\* SKU.str.contains(sku_query, case=False) for a query of letters and digits:
\* the query occurs in s, letter case ignored
Contains(s, q) ==
    \E i \in 1..(Len(s) - Len(q) + 1) :
        Upper(SubSeq(s, i, i + Len(q) - 1)) = Upper(q)

Days(rows) == {rows[i].Den.num : i \in DOMAIN rows}
Max(S) == CHOOSE x \in S : \A y \in S : y <= x
Min(S) == CHOOSE x \in S : \A y \in S : x <= y

\* users_all, as the set of the multiselect's options
users_all(rows) == {rows[i].User : i \in DOMAIN rows}

\* df.loc[mask_range & mask_user & mask_sku]
ApplyFilters(rows, w) ==
    LET mask_range(r) == IF IsNum(w.date_from) /\ IsNum(w.date_to)
                         THEN r.Den.num >= w.date_from.num /\ r.Den.num <= w.date_to.num
                         ELSE TRUE
        mask_user(r) == IF w.sel_users # {} THEN r.User \in w.sel_users ELSE TRUE
        mask_sku(r) == IF w.sku_query # EmptyStr THEN Contains(r.SKU, w.sku_query) ELSE TRUE
    IN  SelectSeq(rows, LAMBDA r : mask_range(r) /\ mask_user(r) /\ mask_sku(r))

(***************************************************************************)
(* Aggregation                                                             *)
(***************************************************************************)
\* the values of the key columns of row r
KeyOf(r, by_cols) == [i \in 1..Len(by_cols) |-> r[by_cols[i]]]

KeyLess(by_cols, k1, k2) ==
    \E i \in 1..Len(by_cols) :
        /\ \A j \in 1..(i - 1) : k1[j] = k2[j]
        /\ ValLess(by_cols[i], k1[i], k2[i])

RECURSIVE SortKeys(_, _)
\* the keys of S in ascending order (groupby and outer merge sort their keys)
SortKeys(by_cols, S) ==
    IF S = {} THEN << >>
    ELSE LET m == CHOOSE k \in S : \A o \in S \ {k} : KeyLess(by_cols, k, o)
         IN  <<m>> \o SortKeys(by_cols, S \ {m})

RECURSIVE SumCol(_, _)
\* the sum of column col over the rows of a table
SumCol(rows, col) ==
    IF rows = << >> THEN 0 ELSE Head(rows)[col] + SumCol(Tail(rows), col)

KeyRow(by_cols, k) ==
    [c \in Range(by_cols) |-> k[CHOOSE i \in 1..Len(by_cols) : by_cols[i] = c]]

\* .groupby(by_cols, dropna=False)[value_col].sum().reset_index(), renamed to `name`
GroupSum(rows, value_col, by_cols, name) ==
    LET keys == SortKeys(by_cols, {KeyOf(rows[i], by_cols) : i \in DOMAIN rows})
    IN  [n \in DOMAIN keys |->
            KeyRow(by_cols, keys[n]) @@
            (name :> SumCol(SelectSeq(rows, LAMBDA r : KeyOf(r, by_cols) = keys[n]),
                            value_col))]

\* an aggregation that forgets the mask
agg_metric_unmasked(df_in, mask_col, value_col, by_cols, name) ==
    GroupSum(df_in, value_col, by_cols, name)

\* agg_metric(df_in, mask_col, value_col, by_cols).rename(columns={value_col: name})
agg_metric(df_in, mask_col, value_col, by_cols, name) ==
    GroupSum(SelectSeq(df_in, LAMBDA r : r[mask_col]), value_col, by_cols, name)

\* the value of column col in the row of table t with key k, 0.0 when t has no such row
\* (the NaN that the outer merge leaves there, after fillna(0.0))
ValueOrZero(t, by_cols, k, col) ==
    IF \E i \in DOMAIN t : KeyOf(t[i], by_cols) = k
    THEN t[CHOOSE i \in DOMAIN t : KeyOf(t[i], by_cols) = k][col]
    ELSE 0

\* inner merges: only the keys the three tables share
merge_inner(p, e, t, by_cols) ==
    LET keysOf(x) == {KeyOf(x[i], by_cols) : i \in DOMAIN x}
        keys == SortKeys(by_cols, keysOf(p) \cap keysOf(e) \cap keysOf(t))
    IN  [n \in DOMAIN keys |->
            KeyRow(by_cols, keys[n]) @@
            [Prijem |-> ValueOrZero(p, by_cols, keys[n], "Prijem"),
             Expedice |-> ValueOrZero(e, by_cols, keys[n], "Expedice"),
             Tonovani |-> ValueOrZero(t, by_cols, keys[n], "Tonovani")]]

\* pd.merge(pd.merge(p, e, on=by_cols, how="outer"), t, on=by_cols, how="outer").fillna(0.0)
merge_outer_fillna(p, e, t, by_cols) ==
    LET keysOf(x) == {KeyOf(x[i], by_cols) : i \in DOMAIN x}
        keys == SortKeys(by_cols, keysOf(p) \cup keysOf(e) \cup keysOf(t))
    IN  [n \in DOMAIN keys |->
            KeyRow(by_cols, keys[n]) @@
            [Prijem |-> ValueOrZero(p, by_cols, keys[n], "Prijem"),
             Expedice |-> ValueOrZero(e, by_cols, keys[n], "Expedice"),
             Tonovani |-> ValueOrZero(t, by_cols, keys[n], "Tonovani")]]

\* the three metrics grouped by by_cols and merged
MetricsBy(rows, by_cols) ==
    merge_outer_fillna(
        agg_metric(rows, "is_prijem", "EffectiveQty_STis1", by_cols, "Prijem"),
        agg_metric(rows, "is_expedice", "EffectiveQty_STis1", by_cols, "Expedice"),
        agg_metric(rows, "is_tonovani", "SkpQty", by_cols, "Tonovani"),
        by_cols)

gcols == <<"Den", "User">>
gcols_sku == <<"Den", "User", "SKU">>

\* den_user, with Celkem_bez_Transfery = sum(axis=1) of the three metrics
DenUser(rows) ==
    LET m == MetricsBy(rows, gcols)
    IN  [n \in DOMAIN m |->
            m[n] @@ [Celkem_bez_Transfery |-> m[n].Prijem + m[n].Expedice + m[n].Tonovani]]

SkuPivot(rows) == MetricsBy(rows, gcols_sku)

\* day totals that keep the first user's row of each day instead of summing
DenTotals_first(du) ==
    LET keys == SortKeys(<<"Den">>, {KeyOf(du[i], <<"Den">>) : i \in DOMAIN du})
    IN  [n \in DOMAIN keys |->
            LET g == SelectSeq(du, LAMBDA r : r.Den = keys[n][1])
            IN  [Den |-> keys[n][1],
                 Prijem |-> g[1].Prijem,
                 Expedice |-> g[1].Expedice,
                 Tonovani |-> g[1].Tonovani,
                 Celkem_bez_Transfery |-> g[1].Celkem_bez_Transfery]]

\* den_user.groupby(["Den"], dropna=False)[[four columns]].sum().reset_index()
DenTotals(du) ==
    LET keys == SortKeys(<<"Den">>, {KeyOf(du[i], <<"Den">>) : i \in DOMAIN du})
    IN  [n \in DOMAIN keys |->
            LET g == SelectSeq(du, LAMBDA r : r.Den = keys[n][1])
            IN  [Den |-> keys[n][1],
                 Prijem |-> SumCol(g, "Prijem"),
                 Expedice |-> SumCol(g, "Expedice"),
                 Tonovani |-> SumCol(g, "Tonovani"),
                 Celkem_bez_Transfery |-> SumCol(g, "Celkem_bez_Transfery")]]

\* a transfer table that sums the quantities instead of counting the rows
TransferDf_quantity(rows) ==
    LET by == <<"Den", "LocationBucket">>
        sel == SelectSeq(rows, LAMBDA r : r.is_transfer)
        keys == SortKeys(by, {KeyOf(sel[i], by) : i \in DOMAIN sel})
    IN  [n \in DOMAIN keys |->
            [Den |-> keys[n][1], LocationBucket |-> keys[n][2],
             Lines_Transfer |-> SumCol(SelectSeq(sel, LAMBDA r : KeyOf(r, by) = keys[n]),
                                       "Qty")]]

\* df_f.loc[is_transfer].groupby(["Den", "LocationBucket"], dropna=False).size()
TransferDf(rows) ==
    LET by == <<"Den", "LocationBucket">>
        sel == SelectSeq(rows, LAMBDA r : r.is_transfer)
        keys == SortKeys(by, {KeyOf(sel[i], by) : i \in DOMAIN sel})
    IN  [n \in DOMAIN keys |->
            [Den |-> keys[n][1], LocationBucket |-> keys[n][2],
             Lines_Transfer |-> Len(SelectSeq(sel, LAMBDA r : KeyOf(r, by) = keys[n]))]]

(***************************************************************************)
(* Top-N selection (tab 2)                                                 *)
(***************************************************************************)
\* sku_pivot.assign(Soucet = sum(axis=1) of the three metrics)
sku_scores(pivot) ==
    [n \in DOMAIN pivot |->
        pivot[n] @@ [Soucet |-> pivot[n].Prijem + pivot[n].Expedice + pivot[n].Tonovani]]

\* mask_top: the rows of the chosen day and of the chosen user; NA is "(vse)" / "(vsichni)"
mask_top(r, w) ==
    /\ IsNa(w.sel_day_for_top) \/ r.Den = w.sel_day_for_top
    /\ IsNa(w.sel_user_for_top) \/ r.User = w.sel_user_for_top.str

\* .sort_values("Soucet", ascending=False) with the default kind="quicksort", which
\* is not stable: every descending arrangement of the rows is a possible result
RECURSIVE sort_values_desc(_)
sort_values_desc(S) ==
    IF S = {} THEN {<< >>}
    ELSE UNION {{<<x>> \o p : p \in sort_values_desc(S \ {x})} :
                    x \in {y \in S : \A z \in S : y.Soucet >= z.Soucet}}

\* .groupby(["Den", "User", "SKU"], as_index=False).agg(sum of the four columns):
\* one row per key, in ascending key order whatever the order of the input
groupby_agg_sum(rows) ==
    LET keys == SortKeys(gcols_sku, {KeyOf(rows[i], gcols_sku) : i \in DOMAIN rows})
    IN  [n \in DOMAIN keys |->
            LET g == SelectSeq(rows, LAMBDA r : KeyOf(r, gcols_sku) = keys[n])
            IN  KeyRow(gcols_sku, keys[n]) @@
                [Prijem |-> SumCol(g, "Prijem"), Expedice |-> SumCol(g, "Expedice"),
                 Tonovani |-> SumCol(g, "Tonovani"), Soucet |-> SumCol(g, "Soucet")]]

\* .head(n)
head(t, n) == SubSeq(t, 1, IF n < Len(t) THEN n ELSE Len(t))

\* the possible values of sku_top
SkuTop(pivot, w) ==
    LET scores == sku_scores(pivot)
        masked == SelectSeq(scores, LAMBDA r : mask_top(r, w))
        sorted == sort_values_desc(Range(masked))
        grouped == {groupby_agg_sum(s) : s \in sorted}
    IN  IF ~IsNa(w.sel_day_for_top) \/ ~IsNa(w.sel_user_for_top)
        THEN {head(g, w.top_n) : g \in grouped}
        ELSE {head(s, w.top_n) : s \in UNION {sort_values_desc(Range(g)) : g \in grouped}}

(***************************************************************************)
(* The script                                                              *)
(***************************************************************************)
\* the widgets' values before the user touches them
DefaultWidgets(rows) ==
    [date_from |-> IF rows = << >> THEN NA ELSE Num(Max(Days(rows))),
     date_to |-> IF rows = << >> THEN NA ELSE Num(Max(Days(rows))),
     sel_users |-> users_all(rows),
     sku_query |-> EmptyStr,
     top_n |-> 20,
     sel_day_for_top |-> NA,
     sel_user_for_top |-> NA]

\* a selectbox whose options changed is a new widget and shows its first option
KeepSelection(sel, old_options, new_options) ==
    IF old_options = new_options THEN sel ELSE NA

\* one run of the script on the uploaded table; w holds the widgets' values, and
\* `fresh` tells that the widgets have no value yet and show their defaults
RunScript(file, w, fresh) ==
    /\ df_src' = file
    /\ norm_s' = norm_s
    \* Load + enrich; on an exception st.error(...) and st.stop()
    /\ err' = add_computed_columns_raises(file)
    /\ df' = IF err'.kind = "none" THEN add_computed_columns(file) ELSE << >>
    \* with no row left den_min is NaN and the date widget may reject its bounds
    /\ pc' \in IF err'.kind # "none" THEN {"error"}
               ELSE IF df' = << >> THEN {"stopped", "done"}
               ELSE {"done"}
    /\ df_f' = ApplyFilters(df', IF fresh THEN DefaultWidgets(df') ELSE w)
    /\ den_user' = DenUser(df_f')
    /\ sku_pivot' = SkuPivot(df_f')
    /\ den_totals' = DenTotals(den_user')
    /\ transfer_df' = TransferDf(df_f')
    /\ widgets' =
         IF df' = << >> THEN DefaultWidgets(<< >>)
         ELSE IF fresh THEN DefaultWidgets(df')
         ELSE [w EXCEPT
                 !.sel_day_for_top =
                     KeepSelection(@, {den_user[i].Den : i \in DOMAIN den_user},
                                   {den_user'[i].Den : i \in DOMAIN den_user'}),
                 !.sel_user_for_top =
                     KeepSelection(@, {den_user[i].User : i \in DOMAIN den_user},
                                   {den_user'[i].User : i \in DOMAIN den_user'})]
    /\ sku_top' \in SkuTop(sku_pivot', widgets')

\* a file is uploaded; the script runs with the widgets' defaults
Upload(file) ==
    /\ pc = "idle"
    /\ RunScript(file, widgets, TRUE)

\* the file is removed: `up is None`, the script stops before anything is shown
Clear ==
    /\ pc # "idle"
    /\ pc' = "idle"
    /\ df_src' = [columns |-> {}, rows |-> << >>]
    /\ err' = NoError
    /\ df' = << >>
    /\ widgets' = DefaultWidgets(<< >>)
    /\ df_f' = << >>
    /\ den_user' = << >>
    /\ sku_pivot' = << >>
    /\ den_totals' = << >>
    /\ transfer_df' = << >>
    /\ sku_top' = << >>
    /\ norm_s' = norm_s

Shown == pc = "done" /\ df # << >>

\* st.sidebar.date_input: a range within [den_min, den_max]
SetDateRange(a, b) ==
    /\ Shown
    /\ Min(Days(df)) <= a /\ a <= b /\ b <= Max(Days(df))
    /\ RunScript(df_src, [widgets EXCEPT !.date_from = Num(a), !.date_to = Num(b)], FALSE)

\* st.sidebar.multiselect over users_all
SetUsers(S) ==
    /\ Shown
    /\ S \subseteq users_all(df)
    /\ RunScript(df_src, [widgets EXCEPT !.sel_users = S], FALSE)

\* st.sidebar.text_input(...).strip()
SetSkuQuery(q) ==
    /\ Shown
    /\ RunScript(df_src, [widgets EXCEPT !.sku_query = Strip(q)], FALSE)

\* st.slider(5, 100, 20, step=5)
SetTopN(n) ==
    /\ Shown
    /\ n \in {5 * k : k \in 1..20}
    /\ RunScript(df_src, [widgets EXCEPT !.top_n = n], FALSE)

\* st.selectbox over "(vse)" and the days of den_user
SetTopDay(d) ==
    /\ Shown
    /\ d \in {NA} \cup {den_user[i].Den : i \in DOMAIN den_user}
    /\ RunScript(df_src, [widgets EXCEPT !.sel_day_for_top = d], FALSE)

\* st.selectbox over "(vsichni)" and the users of den_user
SetTopUser(u) ==
    /\ Shown
    /\ u \in {NA} \cup {Str(den_user[i].User) : i \in DOMAIN den_user}
    /\ RunScript(df_src, [widgets EXCEPT !.sel_user_for_top = u], FALSE)

(***************************************************************************)
(* Uploaded tables                                                         *)
(***************************************************************************)
Row(wt, wc, qty, unit, date, user, sku, loc) ==
    ("Typ prace" :> wt) @@ ("ID pracovni tridy" :> wc) @@ ("Mnozstvi prace" :> qty)
    @@ ("Jednotka" :> unit) @@ ("Uzavrena prace" :> date) @@ ("ID uzivatele" :> user)
    @@ ("C. polozky" :> sku) @@ ("Misto" :> loc)

AllColumns == Range(required_cols)

\* raw cell values
tVlozit == Str(<<"V", "l", "o", "z_caron", "i", "t">>)
tVydat == Str(<<"V", "Y", "D", "A", "T">>)
cNakup == Str(<<"N", "a_acute", "k", "u", "p">>)
cProdej == Str(<<"P", "r", "o", "d", "e", "j">>)
cVyroba == Str(<<"V", "y_acute", "r", "o", "b", "a">>)
cPoPozn == Str(<<"p", "o", "_", "p", "o", "z", "n">>)
cEmpty == Str(EmptyStr)
uSt == Str(<<" ", "s", "t">>)
uPal == Str(<<"P", "A", "L">>)
uKg == Str(<<"K", "G">>)
user1 == Str(<<"u", "1">>)
user2 == Str(<<"u", "2">>)
skuA == Str(<<"A", "1">>)
skuB == Str(<<"B", "2">>)
locAddr == Str(<<"F", "-", "9", "-", "1", "-", "1">>)
locDock == Str(<<"D", "O", "C", "K">>)
txt == Str(<<"x">>)

\* the rows an uploaded table is made of
RowChoices ==
    { Row(tVlozit, cNakup,  Num(5), uSt,  Num(1), user1, skuA, locAddr),   \* Prijem
      Row(tVydat,  NA,      Num(2), uPal, Num(1), user1, skuA, locDock),   \* Expedice
      Row(tVlozit, cVyroba, Num(2), uPal, Num(1), user1, skuB, locDock),   \* Tonovani
      Row(tVlozit, NA,      Num(7), uKg,  Num(1), user1, skuA, locAddr),   \* Transfer
      Row(tVlozit, cPoPozn, Num(3), uKg,  Num(1), user2, skuA, locAddr),   \* Tonovani
      Row(tVydat,  cProdej, Num(4), uKg,  Num(2), user2, skuB, locDock),   \* Expedice
      Row(tVydat,  cNakup,  Num(9), uKg,  NA,     user1, skuA, locDock),   \* no day
      Row(tVlozit, cEmpty,  Num(1), uSt,  txt,    user1, skuA, locDock) }  \* text as date

RECURSIVE Tables(_, _)
\* the tables of at most n rows
Tables(rows, n) ==
    IF n = 0 THEN {<< >>}
    ELSE LET shorter == Tables(rows, n - 1)
         IN  shorter \cup {Append(t, r) : t \in {u \in shorter : Len(u) = n - 1}, r \in rows}

Files == {[columns |-> AllColumns, rows |-> t] : t \in Tables(RowChoices, MaxRows)}

SkuQueries == {EmptyStr, <<"a">>}

\* the days and the users of the rows above, for the widgets' choices
DayChoices == {1, 2}
UserChoices == {user1.str, user2.str}

(***************************************************************************)
(* Specifications                                                          *)
(***************************************************************************)
Idle ==
    /\ pc = "idle"
    /\ df_src = [columns |-> {}, rows |-> << >>]
    /\ err = NoError
    /\ df = << >>
    /\ widgets = DefaultWidgets(<< >>)
    /\ df_f = << >>
    /\ den_user = << >>
    /\ sku_pivot = << >>
    /\ den_totals = << >>
    /\ transfer_df = << >>
    /\ sku_top = << >>

Init == Idle /\ norm_s = << >>

Next ==
    \/ \E f \in Files : Upload(f)
    \/ Clear
    \/ \E a, b \in DayChoices : SetDateRange(a, b)
    \/ \E S \in SUBSET UserChoices : SetUsers(S)
    \/ \E q \in SkuQueries : SetSkuQuery(q)

Spec == Init /\ [][Next]_vars

(***************************************************************************)
(* The normaliser on its own: a value is normalised, and normalised again  *)
(***************************************************************************)
NormChars == {" ", "a", "A", "a_acute", "euro", "_"}

RECURSIVE StringsUpTo(_, _)
StringsUpTo(chars, n) ==
    IF n = 0 THEN {<< >>}
    ELSE LET shorter == StringsUpTo(chars, n - 1)
         IN  shorter \cup {<<c>> \o s : c \in chars, s \in {t \in shorter : Len(t) = n - 1}}

NormInputs == {NA} \cup {Str(s) : s \in StringsUpTo(NormChars, MaxLen)}

InitNorm == Idle /\ \E c \in NormInputs : norm_s = <<c>>

Normalize ==
    /\ Len(norm_s) \in 1..2
    /\ norm_s' = Append(norm_s, Str(normalize_str_series(norm_s[Len(norm_s)])))
    /\ UNCHANGED <<pc, df_src, err, df, widgets, df_f, den_user, sku_pivot,
                   den_totals, transfer_df, sku_top>>

NextNorm == Normalize

SpecNorm == InitNorm /\ [][NextNorm]_vars

(***************************************************************************)
(* One-row tables over every combination of work type, work class, unit    *)
(* and quantity                                                            *)
(***************************************************************************)
WideTypes == {tVlozit, Str(VLOZIT), tVydat, Str(<<" ", "v", "y", "d", "a", "t", " ">>),
              Str(<<"J", "I", "N", "E">>), cEmpty, NA}
WideClasses == {NA, cEmpty, cNakup, Str(NAKUP), cProdej, cVyroba, cPoPozn,
                Str(<<"X">>)}
WideUnits == {uSt, Str(ST), uPal, Str(<<"p", "a", "l">>), uKg, NA}
WideQtys == {Num(0), Num(10), Str(<<"7">>), txt, NA}

RowFiles ==
    {[columns |-> AllColumns,
      rows |-> <<Row(wt, wc, q, u, Num(1), user1, skuA, locAddr)>>] :
        wt \in WideTypes, wc \in WideClasses, q \in WideQtys, u \in WideUnits}

NextRow ==
    \/ \E f \in RowFiles : Upload(f)
    \/ Clear

SpecRow == Init /\ [][NextRow]_vars

(***************************************************************************)
(* Tables with any subset of the required columns                          *)
(***************************************************************************)
ExtraColumn == "Poznamka"

RestrictRow(r, cols) == [c \in cols |-> IF c = ExtraColumn THEN NA ELSE r[c]]

ColFiles ==
    {[columns |-> cols, rows |-> [i \in DOMAIN t |-> RestrictRow(t[i], cols)]] :
        cols \in SUBSET (AllColumns \cup {ExtraColumn}),
        t \in {<< >>,
               <<Row(tVlozit, cNakup, Num(5), uSt, Num(1), user1, skuA, locAddr)>>,
               <<Row(tVlozit, cEmpty, Num(1), uSt, txt, user1, skuA, locDock)>>}}

NextCols ==
    \/ \E f \in ColFiles : Upload(f)
    \/ Clear

SpecCols == Init /\ [][NextCols]_vars

(***************************************************************************)
(* Top-N: six items of one day with pairwise different scores              *)
(***************************************************************************)
skuC == Str(<<"C", "3">>)

TopKeys == << <<user1, skuA>>, <<user1, skuB>>, <<user1, skuC>>,
              <<user2, skuA>>, <<user2, skuB>>, <<user2, skuC>> >>

TopFiles ==
    {[columns |-> AllColumns,
      rows |-> [i \in DOMAIN TopKeys |->
                   Row(tVlozit, cNakup, Num(q[i]), uKg, Num(1),
                       TopKeys[i][1], TopKeys[i][2], locDock)]] :
        q \in {p \in Permutations(DOMAIN TopKeys) :
                    p[1] < p[2] /\ p[3] < p[4] /\ p[5] < p[6]}}

TopNChoices == {5, 20}

NextTop ==
    \/ \E f \in TopFiles : Upload(f)
    \/ Clear
    \/ \E n \in TopNChoices : SetTopN(n)
    \/ \E d \in {NA} \cup {Num(x) : x \in DayChoices} : SetTopDay(d)
    \/ \E u \in {NA} \cup {Str(x) : x \in UserChoices} : SetTopUser(u)

SpecTop == Init /\ [][NextTop]_vars

(***************************************************************************)
(* Properties                                                              *)
(***************************************************************************)
Flags == {"is_prijem", "is_expedice", "is_tonovani", "is_transfer"}

\* C1: at most one of the four category flags of an enriched row is true,
\* whatever its work type and work class normalise to
C1_MutuallyExclusive ==
    \A i \in DOMAIN df : Cardinality({f \in Flags : df[i][f]}) <= 1

\* a Transfer row: work type VLOZIT with an empty work class, and no other flag
C1_Witness ==
    /\ pc = "done"
    /\ \E i \in DOMAIN df :
           /\ df[i].is_transfer
           /\ df[i].WorkType_n = VLOZIT
           /\ df[i].WorkClass_n = EmptyStr
           /\ {f \in Flags : df[i][f]} = {"is_transfer"}

RECURSIVE SumAt(_, _, _)
\* the sum of column col over the rows of the table at the indices S
SumAt(rows, S, col) ==
    IF S = {} THEN 0
    ELSE LET i == CHOOSE j \in S : TRUE
         IN  rows[i][col] + SumAt(rows, S \ {i}, col)

\* the filtered rows of a day and a user that carry a flag
RowsOf(day, user, flag) ==
    {i \in DOMAIN df_f : df_f[i].Den = day /\ df_f[i].User = user /\ df_f[i][flag]}

Counted(r) == r.is_prijem \/ r.is_expedice \/ r.is_tonovani

\* C2: for every (day, user) of den_user, Celkem_bez_Transfery is the sum of
\* EffectiveQty_STis1 over its Prijem rows and over its Expedice rows plus the sum of
\* SkpQty over its Tonovani rows; every counted row has its key in the table, once
C2_TotalExclTransfer ==
    /\ \A n \in DOMAIN den_user :
           den_user[n].Celkem_bez_Transfery =
               SumAt(df_f, RowsOf(den_user[n].Den, den_user[n].User, "is_prijem"),
                     "EffectiveQty_STis1")
               + SumAt(df_f, RowsOf(den_user[n].Den, den_user[n].User, "is_expedice"),
                       "EffectiveQty_STis1")
               + SumAt(df_f, RowsOf(den_user[n].Den, den_user[n].User, "is_tonovani"),
                       "SkpQty")
    /\ \A i \in DOMAIN df_f :
           Counted(df_f[i]) =>
               \E n \in DOMAIN den_user :
                   den_user[n].Den = df_f[i].Den /\ den_user[n].User = df_f[i].User
    /\ \A m, n \in DOMAIN den_user :
           (den_user[m].Den = den_user[n].Den /\ den_user[m].User = den_user[n].User)
               => m = n

\* a key with rows of the three counted categories and a transfer row beside them
C2_Witness ==
    /\ pc = "done"
    /\ \E n \in DOMAIN den_user :
           /\ den_user[n].Prijem > 0
           /\ den_user[n].Expedice > 0
           /\ den_user[n].Tonovani > 0
           /\ den_user[n].Celkem_bez_Transfery > den_user[n].Tonovani

\* the table without its i-th row
RemoveAt(t, i) == SubSeq(t, 1, i - 1) \o SubSeq(t, i + 1, Len(t))

\* the Lines_Transfer of a day and a bucket in a transfer table, 0 when it has no such row
LinesOf(t, day, bucket) ==
    IF \E n \in DOMAIN t : t[n].Den = day /\ t[n].LocationBucket = bucket
    THEN t[CHOOSE n \in DOMAIN t : t[n].Den = day /\ t[n].LocationBucket = bucket].Lines_Transfer
    ELSE 0

\* C3: a filtered row flagged Transfer adds nothing to den_user, sku_pivot and
\* den_totals (without it they are the same tables), it adds exactly 1 to the
\* Lines_Transfer of its day and bucket, and that count is the number of Transfer
\* rows of the day and bucket, whatever their quantities
C3_TransferExcluded ==
    \A i \in DOMAIN df_f :
        df_f[i].is_transfer =>
            LET rest == RemoveAt(df_f, i)
                day == df_f[i].Den
                bucket == df_f[i].LocationBucket
            IN  /\ DenUser(rest) = den_user
                /\ SkuPivot(rest) = sku_pivot
                /\ DenTotals(DenUser(rest)) = den_totals
                /\ LinesOf(transfer_df, day, bucket)
                       = LinesOf(TransferDf(rest), day, bucket) + 1
                /\ LinesOf(transfer_df, day, bucket)
                       = Cardinality({j \in DOMAIN df_f :
                                         /\ df_f[j].is_transfer
                                         /\ df_f[j].Den = day
                                         /\ df_f[j].LocationBucket = bucket})

\* a Transfer row of quantity 7 beside counted rows of its day and user
C3_Witness ==
    /\ pc = "done"
    /\ den_user # << >>
    /\ \E i \in DOMAIN df_f :
           /\ df_f[i].is_transfer
           /\ df_f[i].Qty = 7
           /\ \E n \in DOMAIN den_user :
                  den_user[n].Den = df_f[i].Den /\ den_user[n].User = df_f[i].User
           /\ LinesOf(transfer_df, df_f[i].Den, df_f[i].LocationBucket) >= 1

RECURSIVE StableDesc(_)
\* the rows of t by descending Soucet, rows of equal Soucet in their order in t
StableDesc(t) ==
    IF t = << >> THEN << >>
    ELSE LET m == CHOOSE i \in DOMAIN t :
                      /\ \A j \in DOMAIN t : t[i].Soucet >= t[j].Soucet
                      /\ \A j \in 1..(i - 1) : t[j].Soucet < t[i].Soucet
         IN  <<t[m]>> \o StableDesc(RemoveAt(t, m))

\* the rows of sku_pivot, with their score, that the chosen day and user leave
Candidates == SelectSeq(sku_scores(sku_pivot), LAMBDA r : mask_top(r, widgets))

\* C4: sku_top is the top_n rows of highest Soucet among the rows of the chosen day
\* and user (all of them if fewer), by descending Soucet, rows of equal Soucet in
\* the order of sku_pivot
C4_TopN ==
    pc = "done" => sku_top = head(StableDesc(Candidates), widgets.top_n)

\* C5: normalising an already normalised value returns it unchanged
C5_Idempotent == Len(norm_s) = 3 => norm_s[3] = norm_s[2]

\* the metric of the only key of den_user, 0 when the table is empty
Metric(name) == IF den_user = << >> THEN 0 ELSE den_user[1][name]

\* C6: the only row of a table adds to Prijem or Expedice 1 when its unit is ST and
\* its parsed quantity otherwise, and to Tonovani its quantity times 24 when its unit
\* is PAL and its parsed quantity otherwise
C6_QuantityBinding ==
    (pc = "done" /\ Len(df_f) = 1) =>
        LET r == df_f[1]
        IN  /\ r.is_prijem =>
                Metric("Prijem") = (IF r.Unit_n = ST THEN 1 ELSE r.Qty)
            /\ r.is_expedice =>
                Metric("Expedice") = (IF r.Unit_n = ST THEN 1 ELSE r.Qty)
            /\ r.is_tonovani =>
                Metric("Tonovani") = (IF r.Unit_n = PAL THEN r.Qty * 24 ELSE r.Qty)

\* an Expedice row of 10 PAL counts 10
C6_Witness ==
    /\ pc = "done"
    /\ Len(df_f) = 1
    /\ df_f[1].is_expedice
    /\ df_f[1].Unit_n = PAL
    /\ df_f[1].Qty = 10
    /\ Metric("Expedice") = 10

NoOutput ==
    /\ df = << >>
    /\ df_f = << >>
    /\ den_user = << >>
    /\ sku_pivot = << >>
    /\ den_totals = << >>
    /\ transfer_df = << >>
    /\ sku_top = << >>

\* C7: when the uploaded table lacks required columns the script stops on one error
\* that lists exactly the absent required columns, each once, and shows no table;
\* when it lacks none, that error is not raised
C7_MissingColumns ==
    pc # "idle" =>
        LET absent == AllColumns \ df_src.columns
        IN  IF absent # {}
            THEN /\ pc = "error"
                 /\ err.kind = "missing"
                 /\ Range(err.missing) = absent
                 /\ Len(err.missing) = Cardinality(absent)
                 /\ NoOutput
            ELSE err.kind # "missing"

\* a table that lacks three of the required columns
C7_Witness ==
    /\ pc = "error"
    /\ err.kind = "missing"
    /\ Cardinality(AllColumns \ df_src.columns) = 3
    /\ Len(err.missing) = 3

\* the rows of the uploaded table whose serial date is no number
BadDates == {i \in DOMAIN df_src.rows : ~IsNum(df_src.rows[i]["Uzavrena prace"])}

\* C8: a row whose serial date cannot be read does not make the enrichment fail, is
\* in none of the tables, and the tables are those of the input without the row
C8_BadDateDropped ==
    (pc # "idle" /\ df_src.columns = AllColumns) =>
        \A i \in BadDates :
            LET without == add_computed_columns([df_src EXCEPT !.rows = RemoveAt(@, i)])
                f == ApplyFilters(without, widgets)
            IN  /\ pc \in {"done", "stopped"}
                /\ err = NoError
                /\ df = without
                /\ df_f = f
                /\ den_user = DenUser(f)
                /\ sku_pivot = SkuPivot(f)
                /\ den_totals = DenTotals(DenUser(f))
                /\ transfer_df = TransferDf(f)

\* C9: den_totals has one row per day of den_user, whose four columns are the sums
\* of the columns over the den_user rows of the day, and whose Celkem_bez_Transfery
\* is the sum of its three metrics
C9_DayTotals ==
    /\ {den_totals[n].Den : n \in DOMAIN den_totals}
           = {den_user[n].Den : n \in DOMAIN den_user}
    /\ \A m, n \in DOMAIN den_totals : den_totals[m].Den = den_totals[n].Den => m = n
    /\ \A n \in DOMAIN den_totals :
           LET S == {i \in DOMAIN den_user : den_user[i].Den = den_totals[n].Den}
           IN  /\ \A c \in {"Prijem", "Expedice", "Tonovani", "Celkem_bez_Transfery"} :
                      den_totals[n][c] = SumAt(den_user, S, c)
               /\ den_totals[n].Celkem_bez_Transfery =
                      den_totals[n].Prijem + den_totals[n].Expedice + den_totals[n].Tonovani

\* a day with two users, both with a positive total
C9_Witness ==
    /\ pc = "done"
    /\ \E n \in DOMAIN den_totals :
           /\ Cardinality({i \in DOMAIN den_user : den_user[i].Den = den_totals[n].Den}) = 2
           /\ \A i \in DOMAIN den_user : den_user[i].Celkem_bez_Transfery > 0
           /\ den_totals[n].Celkem_bez_Transfery > 0

\* C10: sku_pivot and den_user have the same (day, user) keys, and for each of them
\* the sums of Prijem, Expedice and Tonovani over the items of sku_pivot are the
\* values of den_user
C10_ItemsReconcile ==
    /\ {<<sku_pivot[n].Den, sku_pivot[n].User>> : n \in DOMAIN sku_pivot}
           = {<<den_user[n].Den, den_user[n].User>> : n \in DOMAIN den_user}
    /\ \A n \in DOMAIN den_user :
           LET S == {i \in DOMAIN sku_pivot :
                        /\ sku_pivot[i].Den = den_user[n].Den
                        /\ sku_pivot[i].User = den_user[n].User}
           IN  \A c \in {"Prijem", "Expedice", "Tonovani"} :
                   den_user[n][c] = SumAt(sku_pivot, S, c)

\* a day and user with two items
C10_Witness ==
    /\ pc = "done"
    /\ \E n \in DOMAIN den_user :
           /\ Cardinality({i \in DOMAIN sku_pivot :
                              /\ sku_pivot[i].Den = den_user[n].Den
                              /\ sku_pivot[i].User = den_user[n].User}) = 2
           /\ den_user[n].Prijem > 0
           /\ den_user[n].Tonovani > 0

====
